---------------------------- MODULE Spec2Model ----------------------------
(***************************************************************************)
(* A model of istanbul-lib-hook (lib/hook.js): the process-wide patch      *)
(* state of vm.createScript, vm.runInThisContext and the module loader,    *)
(* and the operations the module exports.                                  *)
(*                                                                         *)
(* JavaScript values are represented as follows.                           *)
(*   - code is a sequence of tokens (strings);                             *)
(*   - a filename is a string; the token NonString stands for any          *)
(*     filename whose typeof is not 'string' (undefined, an object, ...);  *)
(*   - a function value is a record: [kind |-> "native", ...] for the      *)
(*     runtime's own entry points, [kind |-> "replacement", ...] for the   *)
(*     closures hook.js creates (the record holds the closure's captured   *)
(*     variables);                                                         *)
(*   - a user callback (matcher, transformer) is named by a string; a      *)
(*     matcher is a total predicate on paths, a transformer either returns *)
(*     new code or throws, which is chosen at each call.                   *)
(***************************************************************************)
EXTENDS Naturals, Integers, Sequences, FiniteSets, TLC

VARIABLES
    vmCreateScript,      \* the current value of vm.createScript
    vmRunInThisContext,  \* the current value of vm.runInThisContext
    moduleExtensions,    \* Module._extensions: extension -> loader
    pirateHooks,         \* the closures pirates.addHook has created, by id
    reverts,             \* hook.js's list of revert handles (hook ids)
    requireCache,        \* the keys of require.cache
    revertLog,           \* history: the revert handles invoked, in order
    shadowed,            \* history: per vm entry point, the value the latest install replaced
    installs,            \* history: the number of hook installs so far
    last                 \* history: the last operation and, for a call, its trace

vars == <<vmCreateScript, vmRunInThisContext, moduleExtensions, pirateHooks,
          reverts, requireCache, revertLog, shadowed, installs, last>>

\* The total number of hookRequire / hookCreateScript / hookRunInThisContext
\* calls in a behaviour.
MaxInstalls == 2

-----------------------------------------------------------------------------
(* Inputs *)

NonString == "#not-a-string"

IsString(filename) == filename # NonString

Matchers == {"mFoo", "mAll"}

Transformers == {"tLog", "tCov"}

\* What a transformer invocation does: return, throw an Error object, or
\* throw null (a value that has no properties).
Outcomes == {"return", "throwError", "throwNull"}

Extensions == {".js", ".ts"}

ModuleFiles == {"/p/foo.js", "/p/bar.js", "/p/foo.ts", "/p/node_modules/foo.js"}

\* The (code, filename) pairs passed to vm.createScript / vm.runInThisContext.
Scripts ==
    { <<(<<"a()">>), "/p/foo.js">>,
      <<(<<"b()">>), "foo.js">>,
      <<(<<"a()">>), "/p/bar.js">>,
      <<(<<"b()">>), NonString>> }

\* path.resolve: a relative path is resolved against the working directory,
\* an absolute normalised path is returned as it is.
PathResolve(filename) ==
    IF filename = "foo.js" THEN "/cwd/foo.js" ELSE filename

\* path.extname
ExtName(filename) ==
    IF filename \in {"/p/foo.ts"} THEN ".ts" ELSE ".js"

InNodeModules(path) == path \in {"/p/node_modules/foo.js"}

\* The file's content, as the built-in loader reads it.
Content(filename) == <<"src", filename>>

\* The user's matcher, applied to a path.
Matches(matcher, path) ==
    CASE matcher = "mFoo" ->
            path \in {"/p/foo.js", "/cwd/foo.js", "/p/foo.ts", "/p/node_modules/foo.js"}
      [] matcher = "mAll" -> TRUE

\* The user's transformer, when it returns: the new code depends on the
\* transformer, on the filename it was given and on the code.
Apply(transformer, code, filename) == <<transformer, filename>> \o code

-----------------------------------------------------------------------------
(* Function values *)

\* The pristine entry points, captured when hook.js is loaded.
originalCreateScript == [kind |-> "native", name |-> "createScript"]

originalRunInThisContext == [kind |-> "native", name |-> "runInThisContext"]

\* The trace of one call of an entry point: which callbacks ran with which
\* arguments, what the transformers raised, what was written to
\* console.error, the transform results, what
\* the runtime's own entry point received, and whether an exception reached
\* the caller.
EmptyTrace ==
    [matcherCalls |-> <<>>, transformerCalls |-> <<>>, postLoadCalls |-> <<>>,
     raised |-> <<>>, diag |-> <<>>, results |-> <<>>, native |-> <<>>,
     threw |-> FALSE]

\* b happens after a.
Then(a, b) ==
    [matcherCalls |-> a.matcherCalls \o b.matcherCalls,
     transformerCalls |-> a.transformerCalls \o b.transformerCalls,
     postLoadCalls |-> a.postLoadCalls \o b.postLoadCalls,
     raised |-> a.raised \o b.raised,
     diag |-> a.diag \o b.diag,
     results |-> a.results \o b.results,
     native |-> a.native \o b.native,
     threw |-> a.threw \/ b.threw]

-----------------------------------------------------------------------------
(* shouldHook and transformFn *)

\* shouldHook without its typeof test.
shouldHook_noTypeCheck(matcher, filename) ==
    Matches(matcher, PathResolve(filename))

\* typeof filename === 'string' && matcher(path.resolve(filename))
shouldHook(matcher, filename) ==
    IsString(filename) /\ Matches(matcher, PathResolve(filename))

\* The matcher invocations shouldHook makes (&& does not evaluate its right
\* side when the left side is false).
shouldHookCalls(matcher, filename) ==
    IF IsString(filename)
    THEN <<[matcher |-> matcher, path |-> PathResolve(filename)]>>
    ELSE <<>>

\* Whether a property of the thrown value can be read: reading ex.message of
\* null or undefined raises a TypeError.
HasProperties(outcome) == outcome # "throwNull"

\* The function transformFn returns, applied to (code, filename). returned
\* is FALSE when an exception leaves the function: the catch block reads
\* ex.message and ex.stack after its first console.error.
transformFn(transformer, verbose, code, filename, outcome) ==
    LET verboseLine == IF verbose
                       THEN <<[line |-> "Module load hook: transform", file |-> filename]>>
                       ELSE <<>>
        call == <<[transformer |-> transformer, code |-> code, file |-> filename]>>
        first == <<[line |-> "Transformation error for", file |-> filename]>>
        rest == <<[line |-> "ex.message || String(ex)", file |-> filename],
                  [line |-> "ex.stack", file |-> filename]>>
    IN  IF outcome = "return"
        THEN [returned |-> TRUE,
              code |-> Apply(transformer, code, filename), changed |-> TRUE,
              calls |-> call, raised |-> <<>>, diag |-> verboseLine]
        ELSE IF HasProperties(outcome)
        THEN [returned |-> TRUE, code |-> code, changed |-> FALSE,
              calls |-> call, raised |-> <<outcome>>,
              diag |-> verboseLine \o first \o rest]
        ELSE [returned |-> FALSE, code |-> code, changed |-> FALSE,
              calls |-> call, raised |-> <<outcome>>,
              diag |-> verboseLine \o first]

\* The part of a trace that a call of the function transformFn returns adds.
TransformTrace(ret) ==
    [EmptyTrace EXCEPT !.transformerCalls = ret.calls,
                       !.raised = ret.raised,
                       !.diag = ret.diag,
                       !.results = IF ret.returned
                                   THEN <<[code |-> ret.code, changed |-> ret.changed]>>
                                   ELSE <<>>,
                       !.threw = ~ret.returned]

-----------------------------------------------------------------------------
(* vm.createScript and vm.runInThisContext *)

RECURSIVE Invoke(_, _, _, _)
\* A call fn(code, file) of an entry point's current value.
Invoke(fn, code, file, outcome) ==
    IF fn.kind = "native"
    THEN [EmptyTrace EXCEPT !.native = <<[fn |-> fn.name, code |-> code, file |-> file]>>]
    ELSE LET asked == [EmptyTrace EXCEPT !.matcherCalls = shouldHookCalls(fn.matcher, file)]
         IN  IF ~shouldHook(fn.matcher, file)
             THEN Then(asked, Invoke(fn.delegate, code, file, outcome))
             ELSE LET ret == transformFn(fn.transformer, fn.verbose, code, file, outcome)
                  IN  IF ret.returned
                      THEN Then(Then(asked, TransformTrace(ret)),
                                Invoke(fn.delegate, ret.code, file, outcome))
                      ELSE Then(asked, TransformTrace(ret))

\* A replacement that delegates to the function it replaces instead of the
\* captured original.
CreateScriptReplacement_composing(matcher, transformer, verbose) ==
    [kind |-> "replacement", matcher |-> matcher, transformer |-> transformer,
     verbose |-> verbose, delegate |-> vmCreateScript]

\* The function hookCreateScript assigns to vm.createScript.
CreateScriptReplacement(matcher, transformer, verbose) ==
    [kind |-> "replacement", matcher |-> matcher, transformer |-> transformer,
     verbose |-> verbose, delegate |-> originalCreateScript]

\* The function hookRunInThisContext assigns to vm.runInThisContext.
RunInThisContextReplacement(matcher, transformer, verbose) ==
    [kind |-> "replacement", matcher |-> matcher, transformer |-> transformer,
     verbose |-> verbose, delegate |-> originalRunInThisContext]

\* The history record of an operation: its name and arguments, for a call of
\* an entry point the function that was called (via) and the call's trace,
\* for unloadRequireCache the keys it deleted, for a load the file when the
\* operation just before deleted its key, for unhookRequire the handles it
\* found recorded.
Did(op) ==
    [op |-> op, code |-> <<>>, file |-> "", matcher |-> "", transformer |-> "",
     via |-> originalCreateScript, loaded |-> FALSE, evicted |-> {},
     handles |-> <<>>, trace |-> EmptyTrace]

hookCreateScript(matcher, transformer, verbose) ==
    /\ installs < MaxInstalls
    /\ vmCreateScript' = CreateScriptReplacement(matcher, transformer, verbose)
    /\ shadowed' = [shadowed EXCEPT !.createScript = vmCreateScript]
    /\ installs' = installs + 1
    /\ last' = [Did("hookCreateScript") EXCEPT
                   !.matcher = matcher, !.transformer = transformer]
    /\ UNCHANGED <<vmRunInThisContext, moduleExtensions, pirateHooks, reverts,
                   requireCache, revertLog>>

\* An unhook that puts back the function the latest install replaced.
unhookCreateScript_previous ==
    /\ vmCreateScript' = shadowed.createScript
    /\ last' = Did("unhookCreateScript")
    /\ UNCHANGED <<vmRunInThisContext, moduleExtensions, pirateHooks, reverts,
                   requireCache, revertLog, shadowed, installs>>

unhookCreateScript ==
    /\ vmCreateScript' = originalCreateScript
    /\ last' = Did("unhookCreateScript")
    /\ UNCHANGED <<vmRunInThisContext, moduleExtensions, pirateHooks, reverts,
                   requireCache, revertLog, shadowed, installs>>

hookRunInThisContext(matcher, transformer, verbose) ==
    /\ installs < MaxInstalls
    /\ vmRunInThisContext' = RunInThisContextReplacement(matcher, transformer, verbose)
    /\ shadowed' = [shadowed EXCEPT !.runInThisContext = vmRunInThisContext]
    /\ installs' = installs + 1
    /\ last' = [Did("hookRunInThisContext") EXCEPT
                   !.matcher = matcher, !.transformer = transformer]
    /\ UNCHANGED <<vmCreateScript, moduleExtensions, pirateHooks, reverts,
                   requireCache, revertLog>>

\* An unhook that assigns to the other entry point.
unhookRunInThisContext_wrongEntry ==
    /\ vmCreateScript' = originalRunInThisContext
    /\ last' = Did("unhookRunInThisContext")
    /\ UNCHANGED <<vmRunInThisContext, moduleExtensions, pirateHooks, reverts,
                   requireCache, revertLog, shadowed, installs>>

unhookRunInThisContext ==
    /\ vmRunInThisContext' = originalRunInThisContext
    /\ last' = Did("unhookRunInThisContext")
    /\ UNCHANGED <<vmCreateScript, moduleExtensions, pirateHooks, reverts,
                   requireCache, revertLog, shadowed, installs>>

\* A caller calls vm.createScript(code, file).
CallCreateScript(code, file, outcome) ==
    /\ last' = [Did("createScript") EXCEPT
                   !.code = code, !.file = file,
                   !.via = vmCreateScript,
                   !.trace = Invoke(vmCreateScript, code, file, outcome)]
    /\ UNCHANGED <<vmCreateScript, vmRunInThisContext, moduleExtensions, pirateHooks,
                   reverts, requireCache, revertLog, shadowed, installs>>

\* A caller calls vm.runInThisContext(code, file).
CallRunInThisContext(code, file, outcome) ==
    /\ last' = [Did("runInThisContext") EXCEPT
                   !.code = code, !.file = file,
                   !.via = vmRunInThisContext,
                   !.trace = Invoke(vmRunInThisContext, code, file, outcome)]
    /\ UNCHANGED <<vmCreateScript, vmRunInThisContext, moduleExtensions, pirateHooks,
                   reverts, requireCache, revertLog, shadowed, installs>>

-----------------------------------------------------------------------------
(* The module loader: Module._extensions, pirates.addHook, require *)

\* hook.js installs its module hook through the pirates library and keeps
\* the handle pirates returns. The library and the runtime's loader are
\* modelled by what they do for the calls hook.js makes: addHook puts a loader
\* in front of the registered one for each extension; that loader, unless its
\* hook is reverted, runs the callback on the code of the files shouldCompile
\* accepts; the handle marks the hook reverted and puts the replaced loader
\* back where its own loader is still the registered one.

\* A loader is named by the pirates hook that created it and the extension
\* it was created for; hook 0 is the runtime's own.
BuiltinJsLoader == [hook |-> 0, ext |-> ".js"]

\* Module._extensions[ext] === undefined
NoLoader == [hook |-> 0, ext |-> ""]

\* The options argument of hookRequire. extensions = <<>> stands for an
\* options object without extensions; postLoadHook is "none" (absent),
\* "function", or "notAFunction" (a truthy value that is not a function).
RequireOptions ==
    [verbose : BOOLEAN,
     postLoadHook : {"none", "function", "notAFunction"},
     extensions : {<<>>, <<".ts">>}]

\* The (matcher, transformer, options) triples hookRequire is called with.
RequireArgs ==
    { <<"mFoo", "tLog", [verbose |-> FALSE, postLoadHook |-> "none", extensions |-> <<>>]>>,
      <<"mFoo", "tCov", [verbose |-> FALSE, postLoadHook |-> "function", extensions |-> <<>>]>>,
      <<"mAll", "tCov", [verbose |-> TRUE, postLoadHook |-> "function", extensions |-> <<>>]>>,
      <<"mFoo", "tLog", [verbose |-> TRUE, postLoadHook |-> "function", extensions |-> <<".ts">>]>>,
      <<"mAll", "tLog", [verbose |-> FALSE, postLoadHook |-> "notAFunction", extensions |-> <<".ts">>]>> }

\* The (matcher, transformer, verbose) triples hookCreateScript and
\* hookRunInThisContext are called with.
VmArgs == Matchers \X Transformers \X BOOLEAN

\* pirates' shouldCompile with ignoreNodeModules left at its default (true).
shouldCompile(filename, exts, matcher) ==
    /\ IsString(filename)
    /\ \E i \in 1..Len(exts) : exts[i] = ExtName(filename)
    /\ ~InNodeModules(PathResolve(filename))
    /\ Matches(matcher, PathResolve(filename))

\* The matcher invocations shouldCompile makes.
shouldCompileCalls(filename, exts, matcher) ==
    IF /\ IsString(filename)
       /\ \E i \in 1..Len(exts) : exts[i] = ExtName(filename)
       /\ ~InNodeModules(PathResolve(filename))
    THEN <<[matcher |-> matcher, path |-> PathResolve(filename)]>>
    ELSE <<>>

RECURSIVE RunLoader(_, _, _)
\* A call loader(mod, filename): each pirates loader that is not reverted and
\* should compile wraps mod._compile, then calls the loader it replaced.
\* The result names the hooks that wrapped, outermost loader first, and the
\* matcher invocations made.
RunLoader(hooks, loader, filename) ==
    IF loader.hook = 0
    THEN [wrapped |-> <<>>, matcherCalls |-> <<>>]
    ELSE LET h == hooks[loader.hook]
             inner == RunLoader(hooks, h.oldLoader[loader.ext], filename)
         IN  IF h.reverted
             THEN inner
             ELSE [wrapped |->
                       (IF shouldCompile(filename, h.exts, h.matcher)
                        THEN <<loader.hook>> ELSE <<>>) \o inner.wrapped,
                   matcherCalls |->
                       shouldCompileCalls(filename, h.exts, h.matcher)
                           \o inner.matcherCalls]

\* The callback hookRequire hands to pirates.addHook, applied to
\* (code, filename): the transform step, then postLoadHook.
RequireCallback(h, code, filename, outcome) ==
    LET ret == transformFn(h.transformer, h.verbose, code, filename, outcome)
    IN  [returned |-> ret.returned,
         code |-> ret.code,
         trace |-> [TransformTrace(ret) EXCEPT
                       !.postLoadCalls = IF ret.returned /\ h.postLoadHook
                                         THEN <<filename>> ELSE <<>>]]

RECURSIVE Compile(_, _, _, _, _, _)
\* mod._compile(code, filename) with the wrappers wrapped[1..n] in place: the
\* wrapper installed last runs first and hands its result to the next one;
\* the runtime's own _compile receives the final code.
Compile(hooks, wrapped, n, code, filename, outcome) ==
    IF n = 0
    THEN [EmptyTrace EXCEPT
             !.native = <<[fn |-> "Module._compile", code |-> code, file |-> filename]>>]
    ELSE LET r == RequireCallback(hooks[wrapped[n]], code, filename, outcome)
         IN  IF r.returned
             THEN Then(r.trace, Compile(hooks, wrapped, n - 1, r.code, filename, outcome))
             ELSE r.trace

\* Module.prototype.load: the loader registered for the file's extension,
\* the '.js' loader when none is.
Load(ext, hooks, filename, outcome) ==
    LET registered == ext[ExtName(filename)]
        loader == IF registered = NoLoader THEN ext[".js"] ELSE registered
        run == RunLoader(hooks, loader, filename)
    IN  Then([EmptyTrace EXCEPT !.matcherCalls = run.matcherCalls],
             Compile(hooks, run.wrapped, Len(run.wrapped),
                     Content(filename), filename, outcome))

\* pirates.addHook(callback, {exts, matcher}): the new hook's closure.
addHook(ext, matcher, transformer, verbose, postLoadHook, exts) ==
    [matcher |-> matcher, transformer |-> transformer, verbose |-> verbose,
     postLoadHook |-> postLoadHook, exts |-> exts,
     oldLoader |-> [e \in Extensions |->
                       IF ext[e] = NoLoader THEN ext[".js"] ELSE ext[e]],
     oldLoaders |-> ext,
     reverted |-> FALSE]

hookRequire(matcher, transformer, options) ==
    LET postLoadHook == options.postLoadHook = "function"
        extensions == IF options.extensions = <<>> THEN <<".js">> ELSE options.extensions
        id == Len(pirateHooks) + 1
    IN  /\ installs < MaxInstalls
        /\ pirateHooks' = Append(pirateHooks,
                                 addHook(moduleExtensions, matcher, transformer,
                                         options.verbose, postLoadHook, extensions))
        /\ moduleExtensions' =
               [e \in Extensions |->
                   IF \E i \in 1..Len(extensions) : extensions[i] = e
                   THEN [hook |-> id, ext |-> e]
                   ELSE moduleExtensions[e]]
        /\ reverts' = Append(reverts, id)
        /\ installs' = installs + 1
        /\ last' = [Did("hookRequire") EXCEPT
                       !.matcher = matcher, !.transformer = transformer]
        /\ UNCHANGED <<vmCreateScript, vmRunInThisContext, requireCache,
                       revertLog, shadowed>>

\* The revert handle of hook id, called in state st = [ext, hooks, log];
\* log lists the handles called so far.
Revert(st, id) ==
    LET h == st.hooks[id]
    IN  IF h.reverted
        THEN [st EXCEPT !.log = Append(st.log, id)]
        ELSE [log |-> Append(st.log, id),
              ext |-> [e \in Extensions |->
                          IF /\ \E i \in 1..Len(h.exts) : h.exts[i] = e
                             /\ st.ext[e] = [hook |-> id, ext |-> e]
                          THEN h.oldLoaders[e]
                          ELSE st.ext[e]],
              hooks |-> [st.hooks EXCEPT ![id].reverted = TRUE]]

RECURSIVE RevertEach_lifo(_, _)
\* The handles called last registered first.
RevertEach_lifo(st, handles) ==
    IF handles = <<>>
    THEN st
    ELSE RevertEach_lifo(Revert(st, handles[Len(handles)]),
                         SubSeq(handles, 1, Len(handles) - 1))

RECURSIVE RevertEach(_, _)
\* handles.forEach(function (revert) { revert(); })
RevertEach(st, handles) ==
    IF handles = <<>>
    THEN st
    ELSE RevertEach(Revert(st, Head(handles)), Tail(handles))

\* An unhook that forgets the handles without calling them.
unhookRequire_clearOnly ==
    /\ reverts' = <<>>
    /\ last' = [Did("unhookRequire") EXCEPT !.handles = reverts]
    /\ UNCHANGED <<vmCreateScript, vmRunInThisContext, moduleExtensions, pirateHooks,
                   requireCache, revertLog, shadowed, installs>>

unhookRequire ==
    LET after == RevertEach([ext |-> moduleExtensions, hooks |-> pirateHooks,
                             log |-> revertLog], reverts)
    IN  /\ moduleExtensions' = after.ext
        /\ pirateHooks' = after.hooks
        /\ revertLog' = after.log
        /\ reverts' = <<>>
        /\ last' = [Did("unhookRequire") EXCEPT !.handles = reverts]
        /\ UNCHANGED <<vmCreateScript, vmRunInThisContext, requireCache,
                       shadowed, installs>>

\* A caller requires a module file: a cached module is not loaded again; a
\* module whose load throws is not kept in the cache.
Require(filename, outcome) ==
    /\ IF filename \in requireCache
       THEN /\ last' = [Did("require") EXCEPT !.file = filename]
            /\ UNCHANGED requireCache
       ELSE LET trace == Load(moduleExtensions, pirateHooks, filename, outcome)
            IN  /\ last' = [Did("require") EXCEPT
                               !.code = Content(filename), !.file = filename,
                               !.loaded = TRUE,
                               !.evicted = IF last.op = "unloadRequireCache"
                                           THEN last.evicted \cap {filename}
                                           ELSE {},
                               !.trace = trace]
                /\ requireCache' = IF trace.threw
                                   THEN requireCache
                                   ELSE requireCache \cup {filename}
    /\ UNCHANGED <<vmCreateScript, vmRunInThisContext, moduleExtensions, pirateHooks,
                   reverts, revertLog, shadowed, installs>>

\* unloadRequireCache called without a matcher.
NoMatcher == "#undefined"

\* An unloadRequireCache with its test inverted.
unloadRequireCache_inverted(matcher) ==
    /\ requireCache' = IF matcher # NoMatcher
                       THEN {filename \in requireCache : Matches(matcher, filename)}
                       ELSE requireCache
    /\ last' = [Did("unloadRequireCache") EXCEPT
                   !.matcher = matcher,
                   !.evicted = requireCache \ requireCache']
    /\ UNCHANGED <<vmCreateScript, vmRunInThisContext, moduleExtensions, pirateHooks,
                   reverts, revertLog, shadowed, installs>>

unloadRequireCache(matcher) ==
    /\ requireCache' = IF matcher # NoMatcher
                       THEN {filename \in requireCache : ~Matches(matcher, filename)}
                       ELSE requireCache
    /\ last' = [Did("unloadRequireCache") EXCEPT
                   !.matcher = matcher,
                   !.evicted = requireCache \ requireCache']
    /\ UNCHANGED <<vmCreateScript, vmRunInThisContext, moduleExtensions, pirateHooks,
                   reverts, revertLog, shadowed, installs>>

-----------------------------------------------------------------------------
(* The specification *)

Init ==
    /\ vmCreateScript = originalCreateScript
    /\ vmRunInThisContext = originalRunInThisContext
    /\ moduleExtensions = [e \in Extensions |->
                              IF e = ".js" THEN BuiltinJsLoader ELSE NoLoader]
    /\ pirateHooks = <<>>
    /\ reverts = <<>>
    /\ requireCache = {}
    /\ revertLog = <<>>
    /\ shadowed = [createScript |-> originalCreateScript,
                   runInThisContext |-> originalRunInThisContext]
    /\ installs = 0
    /\ last = Did("load hook.js")

\* The script-compilation and run-in-context entry points alone.
NextVm ==
    \/ \E a \in VmArgs : hookCreateScript(a[1], a[2], a[3])
    \/ unhookCreateScript
    \/ \E a \in VmArgs : hookRunInThisContext(a[1], a[2], a[3])
    \/ unhookRunInThisContext
    \/ \E s \in Scripts, o \in Outcomes : CallCreateScript(s[1], s[2], o)
    \/ \E s \in Scripts, o \in Outcomes : CallRunInThisContext(s[1], s[2], o)

SpecVm == Init /\ [][NextVm]_vars

\* The module loader alone.
NextRequire ==
    \/ \E a \in RequireArgs : hookRequire(a[1], a[2], a[3])
    \/ unhookRequire
    \/ \E m \in Matchers \cup {NoMatcher} : unloadRequireCache(m)
    \/ \E f \in ModuleFiles, o \in Outcomes : Require(f, o)

SpecRequire == Init /\ [][NextRequire]_vars

\* All three interception points together, on fewer inputs.
Next ==
    \/ \E a \in {x \in RequireArgs : x[1] = "mFoo" /\ x[3].verbose = FALSE} :
           hookRequire(a[1], a[2], a[3])
    \/ unhookRequire
    \/ \E a \in {x \in VmArgs : x[1] = "mFoo"} : hookCreateScript(a[1], a[2], a[3])
    \/ unhookCreateScript
    \/ \E a \in {x \in VmArgs : x[1] = "mAll"} : hookRunInThisContext(a[1], a[2], a[3])
    \/ unhookRunInThisContext
    \/ \E m \in {"mFoo"} : unloadRequireCache(m)
    \/ \E s \in {x \in Scripts : x[2] = "foo.js"}, o \in {"return", "throwNull"} :
           CallCreateScript(s[1], s[2], o)
    \/ \E s \in {x \in Scripts : x[2] = "/p/bar.js"}, o \in {"return", "throwError"} :
           CallRunInThisContext(s[1], s[2], o)
    \/ \E f \in {"/p/foo.js", "/p/bar.js"}, o \in {"return"} : Require(f, o)

Spec == Init /\ [][Next]_vars

-----------------------------------------------------------------------------
(* Properties of the script-compilation and run-in-context hooks *)

\* The last operation was a call of vm.createScript or vm.runInThisContext
\* while a replacement was installed there.
HookedVmCall ==
    /\ last.op \in {"createScript", "runInThisContext"}
    /\ last.via.kind = "replacement"

\* The original entry point behind the entry point the last call went to.
OriginalName == last.op

\* What the runtime's own entry point received when it was handed code.
Received(code) == <<[fn |-> OriginalName, code |-> code, file |-> last.file]>>

\* C1: when the matcher accepts the filename and the transformer raises, no
\* exception reaches the caller, the original entry point receives exactly
\* the code that was passed in, the transform result has changed = false and
\* a diagnostic is written, whatever the value raised.
C1_TransformFailureSwallowed ==
    (/\ HookedVmCall
     /\ shouldHook(last.via.matcher, last.file)
     /\ last.trace.raised # <<>>)
    => /\ ~last.trace.threw
       /\ last.trace.native = Received(last.code)
       /\ last.trace.results = <<[code |-> last.code, changed |-> FALSE]>>
       /\ last.trace.diag # <<>>

\* C2: a call whose filename is not a string, or whose resolved path the
\* matcher rejects, is delegated to the captured original with the code
\* unchanged and without invoking the transformer; for a filename that is
\* not a string the matcher is not invoked either.
C2_UnmatchedDelegatedUnchanged ==
    (/\ HookedVmCall
     /\ \/ ~IsString(last.file)
        \/ ~Matches(last.via.matcher, PathResolve(last.file)))
    => /\ last.trace.native = Received(last.code)
       /\ last.trace.transformerCalls = <<>>
       /\ ~last.trace.threw
       /\ ~IsString(last.file) => last.trace.matcherCalls = <<>>

\* A hooked run-in-context call with a string filename that the matcher was
\* asked about and rejected.
C2_Witness ==
    /\ HookedVmCall
    /\ last.op = "runInThisContext"
    /\ IsString(last.file)
    /\ ~Matches(last.via.matcher, PathResolve(last.file))
    /\ Len(last.trace.matcherCalls) = 1
    /\ last.trace.native # <<>>

\* C3: when the matcher accepts the filename and the transformer returns,
\* the original entry point receives exactly transformer(code, filename), the
\* transform result has changed = true, and the transformer was invoked
\* exactly once, with the code passed in and with the very path the matcher
\* was evaluated on.
C3_MatchedTransformDelivered ==
    (/\ HookedVmCall
     /\ shouldHook(last.via.matcher, last.file)
     /\ last.trace.raised = <<>>)
    => LET out == Apply(last.via.transformer, last.code, last.file)
       IN  /\ last.trace.native = Received(out)
           /\ last.trace.results = <<[code |-> out, changed |-> TRUE]>>
           /\ Len(last.trace.transformerCalls) = 1
           /\ Len(last.trace.matcherCalls) = 1
           /\ last.trace.transformerCalls[1].code = last.code
           /\ last.trace.transformerCalls[1].file = last.trace.matcherCalls[1].path

\* C4: an unhook leaves the entry point equal to the pristine original
\* captured at load time, whatever was installed before it (nothing, one
\* replacement, or a replacement installed over another).
C4_UnhookRestoresPristine ==
    /\ last.op = "unhookCreateScript" => vmCreateScript = originalCreateScript
    /\ last.op = "unhookRunInThisContext" => vmRunInThisContext = originalRunInThisContext

\* An unhook of vm.createScript after a replacement was installed over
\* another replacement.
C4_Witness ==
    /\ last.op = "unhookCreateScript"
    /\ shadowed.createScript.kind = "replacement"
    /\ vmCreateScript = originalCreateScript

\* C5: a second install overwrites the first. The installed replacement is
\* the one built from the latest install's arguments and delegates to the
\* original; a call through it invokes no matcher and no transformer but the
\* latest install's, each at most once, and the code the original receives
\* is determined by them alone.
C5_OverwriteNotCompose ==
    /\ last.op = "hookCreateScript" =>
           /\ vmCreateScript.matcher = last.matcher
           /\ vmCreateScript.transformer = last.transformer
           /\ vmCreateScript.delegate = originalCreateScript
    /\ last.op = "hookRunInThisContext" =>
           /\ vmRunInThisContext.matcher = last.matcher
           /\ vmRunInThisContext.transformer = last.transformer
           /\ vmRunInThisContext.delegate = originalRunInThisContext
    /\ last.op = "createScript" => last.via = vmCreateScript
    /\ last.op = "runInThisContext" => last.via = vmRunInThisContext
    /\ HookedVmCall =>
           LET t == last.trace
               matched == /\ IsString(last.file)
                          /\ Matches(last.via.matcher, PathResolve(last.file))
           IN  /\ Len(t.matcherCalls) <= 1
               /\ Len(t.transformerCalls) <= 1
               /\ \A i \in 1..Len(t.matcherCalls) :
                      t.matcherCalls[i].matcher = last.via.matcher
               /\ \A i \in 1..Len(t.transformerCalls) :
                      t.transformerCalls[i].transformer = last.via.transformer
               /\ (t.transformerCalls # <<>>) = matched
               /\ ~t.threw =>
                      t.native = Received(IF matched /\ t.raised = <<>>
                                          THEN Apply(last.via.transformer, last.code, last.file)
                                          ELSE last.code)

\* A call of vm.createScript after (m1, t1) then (m2, t2) were installed, with
\* m1 # m2 and t1 # t2, on a filename both matchers accept: t2 ran.
C5_Witness ==
    /\ HookedVmCall
    /\ last.op = "createScript"
    /\ shadowed.createScript.kind = "replacement"
    /\ shadowed.createScript.matcher # last.via.matcher
    /\ shadowed.createScript.transformer # last.via.transformer
    /\ IsString(last.file)
    /\ Matches(shadowed.createScript.matcher, PathResolve(last.file))
    /\ Matches(last.via.matcher, PathResolve(last.file))
    /\ Len(last.trace.transformerCalls) = 1

-----------------------------------------------------------------------------
(* Properties of the module-load hooks *)

\* Hook k is not reverted and compiles the file: its extension list holds
\* the file's extension, the file is outside node_modules and the matcher
\* accepts its path.
LiveMatching(k, filename) ==
    /\ ~pirateHooks[k].reverted
    /\ shouldCompile(filename, pirateHooks[k].exts, pirateHooks[k].matcher)

\* The last operation loaded a module file (it was not in the cache).
ModuleLoad == last.op = "require" /\ last.loaded

\* The load handed the file's own content to the runtime's _compile.
LoadedUnmodified ==
    last.trace.native =
        <<[fn |-> "Module._compile", code |-> Content(last.file), file |-> last.file]>>

\* C6: after unhookRequire the revert-handle list is empty and no
\* module-load hook is active: until the next hookRequire every load hands the
\* unmodified content to the runtime and invokes no matcher, no transformer
\* and no postLoadHook. An unhookRequire that finds no handle changes nothing.
C6_UnhookRequireDeactivatesAll ==
    /\ [](/\ last.op = "unhookRequire" =>
                 /\ reverts = <<>>
                 /\ \A k \in 1..Len(pirateHooks) : pirateHooks[k].reverted
          /\ (ModuleLoad /\ reverts = <<>>) =>
                 /\ LoadedUnmodified
                 /\ last.trace.transformerCalls = <<>>
                 /\ last.trace.matcherCalls = <<>>
                 /\ last.trace.postLoadCalls = <<>>
                 /\ ~last.trace.threw)
    /\ [][(last'.op = "unhookRequire" /\ reverts = <<>>) =>
              UNCHANGED <<vmCreateScript, vmRunInThisContext, moduleExtensions,
                          pirateHooks, reverts, requireCache, revertLog>>]_vars

\* A load, after unhookRequire reverted two hooks, of a file that one of them
\* compiled while it was installed.
C6_Witness ==
    /\ ModuleLoad
    /\ reverts = <<>>
    /\ Len(pirateHooks) >= 2
    /\ \E k \in 1..Len(pirateHooks) :
           shouldCompile(last.file, pirateHooks[k].exts, pirateHooks[k].matcher)
    /\ LoadedUnmodified

\* C7: with a module hook installed with a postLoadHook, postLoadHook is
\* invoked with the file path after every load of a file with an eligible
\* extension, whether or not the matcher accepted the file and whether or not
\* the transformer succeeded (stated here for the loads that complete).
C7_PostLoadHookAfterEveryLoad ==
    (ModuleLoad /\ ~last.trace.threw) =>
        \A k \in 1..Len(pirateHooks) :
            (/\ ~pirateHooks[k].reverted
             /\ pirateHooks[k].postLoadHook
             /\ \E i \in 1..Len(pirateHooks[k].exts) :
                    pirateHooks[k].exts[i] = ExtName(last.file))
            => \E i \in 1..Len(last.trace.postLoadCalls) :
                   last.trace.postLoadCalls[i] = last.file

\* Every hook that is live for the file was asked through its matcher, and
\* its transformer ran unless an exception ended the load.
Intercepted(filename, trace) ==
    \A k \in 1..Len(pirateHooks) :
        LiveMatching(k, filename) =>
            /\ \E i \in 1..Len(trace.matcherCalls) :
                   trace.matcherCalls[i] =
                       [matcher |-> pirateHooks[k].matcher, path |-> PathResolve(filename)]
            /\ \/ trace.threw
               \/ \E i \in 1..Len(trace.transformerCalls) :
                      /\ trace.transformerCalls[i].transformer = pirateHooks[k].transformer
                      /\ trace.transformerCalls[i].file = filename

\* C8: unloadRequireCache(matcher) deletes from the module cache exactly the
\* keys the matcher accepts and changes nothing else (entry points, loaders,
\* revert list); a module that is not in the cache, such as one just evicted,
\* is loaded through the installed module hooks when it is required.
C8_UnloadEvictsExactlyMatching ==
    /\ []((last.op = "require" /\ last.evicted # {}) =>
              /\ last.loaded
              /\ last.evicted = {last.file}
              /\ Intercepted(last.file, last.trace))
    /\ [][/\ last'.op = "unloadRequireCache" =>
                 /\ requireCache' =
                        {f \in requireCache :
                            ~(last'.matcher # NoMatcher /\ Matches(last'.matcher, f))}
                 /\ last'.evicted = requireCache \ requireCache'
                 /\ UNCHANGED <<vmCreateScript, vmRunInThisContext, moduleExtensions,
                                pirateHooks, reverts>>
          /\ (last'.op = "require" /\ last'.file \notin requireCache) =>
                 /\ last'.loaded
                 /\ Intercepted(last'.file, last'.trace)]_vars

\* A load of a module that the operation just before evicted, while another
\* module stayed cached, and a live hook transformed it again.
C8_Witness ==
    /\ ModuleLoad
    /\ last.evicted = {last.file}
    /\ requireCache \ {last.file} # {}
    /\ \E k \in 1..Len(pirateHooks) : LiveMatching(k, last.file)
    /\ last.trace.transformerCalls # <<>>

\* C9: each hookRequire appends exactly one revert handle, and unhookRequire
\* invokes every recorded handle exactly once, first registered first; the
\* handles invoked so far followed by the handles still recorded are the
\* hooks in the order they were installed, so no handle is invoked twice.
C9_RevertsInRegistrationOrder ==
    /\ revertLog \o reverts = [i \in 1..Len(pirateHooks) |-> i]
    /\ last.op = "hookRequire" =>
           /\ reverts # <<>>
           /\ reverts[Len(reverts)] = Len(pirateHooks)
    /\ last.op = "unhookRequire" =>
           /\ reverts = <<>>
           /\ Len(revertLog) >= Len(last.handles)
           /\ SubSeq(revertLog, Len(revertLog) - Len(last.handles) + 1, Len(revertLog))
                  = last.handles

\* One unhookRequire invoked two recorded handles.
C9_Witness ==
    /\ last.op = "unhookRequire"
    /\ Len(last.handles) >= 2
    /\ Len(revertLog) >= 2

-----------------------------------------------------------------------------
(* Independence of the three interception points *)

\* C10: installing or removing a hook on vm.createScript, on
\* vm.runInThisContext or on module loading leaves the other two and the
\* module cache unchanged; the vm operations leave the revert-handle list
\* unchanged too.
C10_InterceptionPointsIndependent ==
    [][/\ last'.op \in {"hookCreateScript", "unhookCreateScript"} =>
              UNCHANGED <<vmRunInThisContext, moduleExtensions, pirateHooks,
                          reverts, requireCache>>
       /\ last'.op \in {"hookRunInThisContext", "unhookRunInThisContext"} =>
              UNCHANGED <<vmCreateScript, moduleExtensions, pirateHooks,
                          reverts, requireCache>>
       /\ last'.op \in {"hookRequire", "unhookRequire"} =>
              UNCHANGED <<vmCreateScript, vmRunInThisContext, requireCache>>]_vars

\* vm.runInThisContext was unhooked while vm.createScript and module loading
\* were hooked and a module was cached.
C10_Witness ==
    /\ last.op = "unhookRunInThisContext"
    /\ vmCreateScript.kind = "replacement"
    /\ reverts # <<>>
    /\ requireCache # {}

=============================================================================
